---- MODULE Spec2Model ----
(***************************************************************************)
(* Model of admin/create_zip_for_download.py: one invocation of the script *)
(* is a walk of the program counter pc through main(): repository-root     *)
(* discovery, source- and output-directory resolution, opening the zip,    *)
(* the sorted walk of the source tree, the exit of the with block, and the *)
(* report or the top-level exception handler.                              *)
(*                                                                         *)
(* Strings are sequences of character codes, paths are sequences of        *)
(* components (pathlib's parts, without the leading "/" anchor).           *)
(***************************************************************************)
EXTENDS Integers, Sequences, FiniteSets, TLC

VARIABLES
    tree,         \* the source tree: path relative to docs_dir -> [kind, data]
    docsKind,     \* what the resolved docs_dir is on disk: "dir", "file", "missing"
    dotgit,       \* the ancestors of script_dir (levels) that contain a .git entry
    gitTop,       \* what git rev-parse --show-toplevel answers: a level, -1 if it fails
    today,        \* the date london_now_stamp() returns
    args,         \* the parsed command line: [docs_dir, out_dir, stamp]
    pc,           \* position in main()
    run,          \* the current invocation: 1 the first, 2 the one after it
    repo_root,    \* level of the ancestor found as repository root, -1 before
    docs_dir,     \* resolved source directory (absolute parts)
    out_dir,      \* resolved output directory (absolute parts)
    zip_path,     \* absolute parts of the archive path
    z,            \* the ZipFile of the with block: "none", "open", "closed"
    zips,         \* archive files on disk: path -> [entries, final]
    todo,         \* the part of sorted(docs_dir.rglob("*")) not yet visited
    files_added,
    dirs_added,
    exc,          \* the exception in flight, "none" if none
    console,      \* the lines printed so far in this invocation
    exit_code,    \* process exit status, -1 while running
    walked,       \* TRUE once find_repo_root has looked at the ancestors
    log           \* one record per finished invocation

vars == <<tree, docsKind, dotgit, gitTop, today, args, pc, run, repo_root, docs_dir,
          out_dir, zip_path, z, zips, todo, files_added, dirs_added, exc,
          console, exit_code, walked, log>>

(***************************************************************************)
(* Bounds                                                                  *)
(***************************************************************************)
MaxEntries == 3        \* entries of the source tree (walk specification)
MaxDepth == 2          \* depth of the source tree
MaxEntriesSmall == 1   \* entries of the source tree where the tree is not the subject
MaxEntriesTwice == 2   \* entries of the source tree in the specification of repeated runs
AncDepth == 2          \* script_dir and its ancestors, up to the filesystem root

(***************************************************************************)
(* Characters and names                                                    *)
(***************************************************************************)
Slash == 47

DS_Store == <<46, 68, 83, 95, 83, 116, 111, 114, 101>>            \* ".DS_Store"
Thumbs_db == <<84, 104, 117, 109, 98, 115, 46, 100, 98>>          \* "Thumbs.db"
Pycache == <<95, 95, 112, 121, 99, 97, 99, 104, 101, 95, 95>>     \* "__pycache__"
NameA == <<97>>                                                   \* "a"
NameADash == <<97, 45, 98>>                                       \* "a-b"
NameD == <<100>>                                                  \* "d"
ExportData == <<101, 120, 112, 111, 114, 116, 95, 100, 97, 116, 97>>
InspectionReports == <<105, 110, 115, 112, 101, 99, 116, 105, 111, 110, 95,
                       114, 101, 112, 111, 114, 116, 115>>
DotZip == <<46, 122, 105, 112>>                                   \* ".zip"
StampS == <<115>>                                                 \* "s"
Day1 == <<50, 48, 50, 54, 48, 49, 48, 49>>                        \* "20260101"
Day2 == <<50, 48, 50, 54, 48, 49, 48, 50>>                        \* "20260102"

TreeNames == {NameA, NameADash, DS_Store, Thumbs_db, Pycache}
Kinds == {"dir", "file", "other"}

NoPath == <<<<0>>>>     \* stands for a path not yet computed

(***************************************************************************)
(* Sequences                                                               *)
(***************************************************************************)
Last(s) == s[Len(s)]

IsPrefix(p, q) == Len(p) <= Len(q) /\ SubSeq(q, 1, Len(p)) = p

Range(s) == {s[i] : i \in DOMAIN s}

RECURSIVE SeqOfSet(_)
SeqOfSet(S) == IF S = {} THEN <<>>
               ELSE LET x == CHOOSE y \in S : TRUE IN <<x>> \o SeqOfSet(S \ {x})

Rotate(s, k) == [i \in 1..Len(s) |-> s[((i + k - 1) % Len(s)) + 1]]

Reverse(s) == [i \in 1..Len(s) |-> s[Len(s) + 1 - i]]

(***************************************************************************)
(* Path order and sorting                                                  *)
(***************************************************************************)
\* str.__lt__: code point by code point, a proper prefix is smaller
RECURSIVE StrLT(_, _)
StrLT(s, t) ==
    IF t = <<>> THEN FALSE
    ELSE IF s = <<>> THEN TRUE
    ELSE IF Head(s) = Head(t) THEN StrLT(Tail(s), Tail(t))
    ELSE Head(s) < Head(t)

\* variant: paths compared as whole strings
RECURSIVE JoinedWithSlash(_)
JoinedWithSlash(p) ==
    IF p = <<>> THEN <<>>
    ELSE <<Slash>> \o Head(p) \o JoinedWithSlash(Tail(p))

PathLT_ByString(p, q) == StrLT(JoinedWithSlash(p), JoinedWithSlash(q))

\* PurePath.__lt__: the lists of parts are compared, component by component
RECURSIVE PathLT(_, _)
PathLT(p, q) ==
    IF q = <<>> THEN FALSE
    ELSE IF p = <<>> THEN TRUE
    ELSE IF Head(p) = Head(q) THEN PathLT(Tail(p), Tail(q))
    ELSE StrLT(Head(p), Head(q))

RECURSIVE InsertSorted(_, _)
InsertSorted(p, s) ==
    IF s = <<>> THEN <<p>>
    ELSE IF PathLT(p, Head(s)) THEN <<p>> \o s
    ELSE <<Head(s)>> \o InsertSorted(p, Tail(s))

\* variant: the entries are taken in the order rglob produced them
Sorted_Omitted(enum) == enum

\* sorted(iterable) of Path objects
RECURSIVE Sorted(_)
Sorted(enum) ==
    IF enum = <<>> THEN <<>>
    ELSE InsertSorted(Head(enum), Sorted(Tail(enum)))

(***************************************************************************)
(* Pure functions of the script                                            *)
(***************************************************************************)
\* variant: only the base name is compared with the cache-directory name
should_skip_NameOnly(path) == Last(path) \in {DS_Store, Thumbs_db, Pycache}

should_skip(path) ==
    LET name == Last(path) IN
    IF name \in {DS_Store, Thumbs_db} THEN TRUE
    ELSE IF \E i \in DOMAIN path : path[i] = Pycache THEN TRUE
    ELSE FALSE

\* p.relative_to(docs_dir)
relative_to(p, base) == SubSeq(p, Len(base) + 1, Len(p))

\* rel.as_posix(): the components joined with "/"
RECURSIVE as_posix(_)
as_posix(rel) ==
    IF rel = <<>> THEN <<>>
    ELSE IF Len(rel) = 1 THEN rel[1]
    ELSE rel[1] \o <<Slash>> \o as_posix(Tail(rel))

\* str(PurePosixPath(rel.as_posix()))
ArcName(rel) == as_posix(rel)

\* str(arc) + "/"
MarkerName(rel) == ArcName(rel) \o <<Slash>>

\* f"{stamp}_{repo_name}.zip"
ZipName(stamp, repo_name) == stamp \o <<95>> \o repo_name \o DotZip

\* Path.name: the last component, "" for the filesystem root
PathName(p) == IF p = <<>> THEN <<>> ELSE Last(p)

(***************************************************************************)
(* The filesystem                                                          *)
(***************************************************************************)
Children(t, d) == {q \in DOMAIN t : Len(q) = Len(d) + 1 /\ IsPrefix(d, q)}

\* variant: the emptiness check looks only at children the walk keeps
any_iterdir_Filtered(t, rel) ==
    \E q \in Children(t, rel) : Last(q) \notin {DS_Store, Thumbs_db, Pycache}

\* p.is_dir(), p.is_file(), any(p.iterdir()) for an entry of the source tree
is_dir(t, rel) == rel \in DOMAIN t /\ t[rel].kind = "dir"
is_file(t, rel) == rel \in DOMAIN t /\ t[rel].kind = "file"
any_iterdir(t, rel) == Children(t, rel) # {}

\* the bytes an archive occupies on disk: per entry a header, the name and
\* the data; the central directory once the archive is closed
RECURSIVE ZipBytes(_, _)
ZipBytes(entries, final) ==
    IF entries = <<>> THEN (IF final THEN <<80, 75, 5, 6>> ELSE <<>>)
    ELSE <<80, 75, 3, 4>> \o Head(entries).name \o Head(entries).data
         \o ZipBytes(Tail(entries), final)

\* the source trees of at most n entries
TreeExt(T) ==
    ({<<n>> : n \in TreeNames}
     \cup {Append(q, n) : q \in {r \in T : Len(r) < MaxDepth}, n \in TreeNames}) \ T

RECURSIVE PathSets(_)
PathSets(n) ==
    IF n = 0 THEN {{}}
    ELSE LET prev == PathSets(n - 1)
         IN prev \cup UNION {{T \cup {p} : p \in TreeExt(T)} : T \in prev}

HasChild(P, d) == \E q \in P : Len(q) = Len(d) + 1 /\ IsPrefix(d, q)

\* a regular file is empty or holds its own name as content, so that no two
\* files of different names hold the same bytes unless both are empty
FileContents(p) ==
    IF Last(p) \in {DS_Store, Thumbs_db} THEN {Last(p)} ELSE {<<>>, Last(p)}

\* .DS_Store and Thumbs.db are files the operating system leaves behind,
\* __pycache__ is a directory the interpreter creates
KindsOf(p) ==
    IF Last(p) \in {DS_Store, Thumbs_db} THEN {"file"}
    ELSE IF Last(p) = Pycache THEN {"dir"}
    ELSE Kinds

KindAssignments(P) ==
    {k \in [P -> Kinds] : \A p \in P : /\ k[p] \in KindsOf(p)
                                       /\ HasChild(P, p) => k[p] = "dir"}

TreesWithKinds(P, k) ==
    LET files == {p \in P : k[p] = "file" /\ Cardinality(FileContents(p)) > 1}
    IN {[p \in P |-> [kind |-> k[p],
                      data |-> IF k[p] # "file" THEN <<>>
                               ELSE IF p \in files /\ empty[p] THEN <<>>
                               ELSE Last(p)]] : empty \in [files -> BOOLEAN]}

TreesOver(P) == UNION {TreesWithKinds(P, k) : k \in KindAssignments(P)}

Trees(n) == UNION {TreesOver(P) : P \in PathSets(n)}

EmptyTree == [p \in {} |-> [kind |-> "dir", data |-> <<>>]]

(***************************************************************************)
(* Command line and surroundings of the script                             *)
(***************************************************************************)
Levels == 0..(AncDepth - 1)

\* the absolute parts of the ancestor at a level: level 0 is script_dir,
\* level AncDepth - 1 the filesystem root
LevelPath(i) == [j \in 1..(AncDepth - 1 - i) |-> <<113 + j>>]

Absent == [set |-> FALSE, val |-> <<>>]
Given(v) == [set |-> TRUE, val |-> v]

\* the truth value Python gives an optional string argument
Truthy(a) == a.set /\ a.val # <<>>

DocsArgs == {Absent, Given(<<NameD>>), Given(<<Pycache, NameD>>)}
OutArgs == {Absent, Given(<<NameD>>), Given(<<NameD, NameA>>)}
StampArgs == {Absent, Given(<<>>), Given(StampS)}

AllArgs == [docs_dir : DocsArgs, out_dir : OutArgs, stamp : StampArgs]

\* variant: the farthest ancestor holding .git
FirstGit_Farthest(git, i) ==
    IF git \cap (i..(AncDepth - 1)) = {} THEN -1
    ELSE CHOOSE l \in git : l >= i /\ \A m \in git : m <= l

\* find_repo_root, step 2: the first of [cur, *cur.parents] holding .git
RECURSIVE FirstGit(_, _)
FirstGit(git, i) ==
    IF i >= AncDepth THEN -1
    ELSE IF i \in git THEN i
    ELSE FirstGit(git, i + 1)

london_now_stamp == today

\* variant: mode "a", which keeps the entries of an existing archive
ZipOpen_Append(zs, path) ==
    IF path \in DOMAIN zs THEN zs[path].entries ELSE <<>>

\* ZipFile(zip_path, "w"): the archive starts empty whether or not a file
\* exists at the path
ZipOpen(zs, path) == <<>>

\* the source tree after the archive at zp holds the given entries
SyncTree(t, docs, zp, entries, final) ==
    IF IsPrefix(docs, zp)
    THEN LET rel == relative_to(zp, docs)
         IN [q \in DOMAIN t \cup {rel} |->
                IF q = rel
                THEN [kind |-> "file", data |-> ZipBytes(entries, final)]
                ELSE t[q]]
    ELSE t

\* out_dir.mkdir(parents=True, exist_ok=True) for a directory under docs_dir
Prefixes(rel) == {SubSeq(rel, 1, k) : k \in 1..Len(rel)}
MkdirBlocked(t, rel) == \E q \in Prefixes(rel) : q \in DOMAIN t /\ t[q].kind # "dir"
MkdirTree(t, rel) ==
    [q \in DOMAIN t \cup Prefixes(rel) |->
        IF q \in DOMAIN t THEN t[q] ELSE [kind |-> "dir", data |-> <<>>]]

\* the orders docs_dir.rglob("*") may produce the entries in
Enumerations(S) ==
    IF S = {} THEN {<<>>}
    ELSE LET b == SeqOfSet(S)
         IN {Rotate(b, k) : k \in 0..(Len(b) - 1)}
            \cup {Reverse(Rotate(b, k)) : k \in 0..(Len(b) - 1)}

\* what reading a file of the source tree yields; the archive itself, when it
\* lies in the source tree, is read while it is being written
PrefixesOf(bytes) == {SubSeq(bytes, 1, k) : k \in 0..Len(bytes)}
ReadData(t, zs, docs, zp, rel) ==
    IF docs \o rel = zp THEN PrefixesOf(ZipBytes(zs[zp].entries, FALSE))
    ELSE {t[rel].data}

Names(entries) == [i \in DOMAIN entries |-> entries[i].name]

LogRecord(ok) ==
    [ok |-> ok, zip_path |-> zip_path, stamp |-> args.stamp,
     names |-> IF zip_path \in DOMAIN zips /\ z # "none"
               THEN Names(zips[zip_path].entries) ELSE <<>>,
     kinds |-> [q \in DOMAIN tree |-> tree[q].kind]]

(***************************************************************************)
(* Initial states                                                          *)
(***************************************************************************)
InitWith(treeSet, argSet, gitSets, gitAnswers) ==
    /\ \/ docsKind = "dir" /\ tree \in treeSet
       \/ docsKind \in {"file", "missing"} /\ tree = EmptyTree
    /\ dotgit \in gitSets
    /\ gitTop \in gitAnswers
    /\ args \in argSet
    /\ today = Day1
    /\ pc = "find_git"
    /\ run = 1
    /\ repo_root = -1
    /\ docs_dir = NoPath
    /\ out_dir = NoPath
    /\ zip_path = NoPath
    /\ z = "none"
    /\ zips = [q \in {} |-> [entries |-> <<>>, final |-> FALSE]]
    /\ todo = <<>>
    /\ files_added = 0
    /\ dirs_added = 0
    /\ exc = "none"
    /\ console = <<>>
    /\ exit_code = -1
    /\ walked = FALSE
    /\ log = <<>>

inputs == <<docsKind, dotgit, gitTop, args>>
counters == <<files_added, dirs_added>>
outcome == <<console, exit_code, log>>

(***************************************************************************)
(* find_repo_root                                                          *)
(***************************************************************************)
\* step 1: git rev-parse --show-toplevel answers, or fails
GitQuery ==
    /\ pc = "find_git"
    /\ IF gitTop = -1
       THEN pc' = "find_walk" /\ UNCHANGED repo_root
       ELSE pc' = "docs" /\ repo_root' = gitTop
    /\ UNCHANGED <<tree, inputs, today, run, docs_dir, out_dir, zip_path, z,
                   zips, todo, counters, exc, outcome, walked>>

\* step 2: walk up looking for .git
WalkUp ==
    /\ pc = "find_walk"
    /\ walked' = TRUE
    /\ LET f == FirstGit(dotgit, 0)
       IN IF f = -1
          THEN pc' = "except" /\ exc' = "RuntimeError" /\ UNCHANGED repo_root
          ELSE pc' = "docs" /\ repo_root' = f /\ UNCHANGED exc
    /\ UNCHANGED <<tree, inputs, today, run, docs_dir, out_dir, zip_path, z,
                   zips, todo, counters, outcome>>

(***************************************************************************)
(* main: resolution                                                        *)
(***************************************************************************)
\* variant: the existence check of docs_dir is missing
ResolveDocs_Unchecked ==
    /\ pc = "docs"
    /\ docs_dir' = IF Truthy(args.docs_dir) THEN args.docs_dir.val
                   ELSE LevelPath(repo_root) \o <<ExportData, InspectionReports>>
    /\ pc' = "outdir"
    /\ UNCHANGED <<tree, inputs, today, run, repo_root, out_dir, zip_path, z,
                   zips, todo, counters, exc, outcome, walked>>

ResolveDocs ==
    /\ pc = "docs"
    /\ docs_dir' = IF Truthy(args.docs_dir) THEN args.docs_dir.val
                   ELSE LevelPath(repo_root) \o <<ExportData, InspectionReports>>
    /\ IF docsKind # "dir"
       THEN pc' = "except" /\ exc' = "FileNotFoundError"
       ELSE pc' = "outdir" /\ UNCHANGED exc
    /\ UNCHANGED <<tree, inputs, today, run, repo_root, out_dir, zip_path, z,
                   zips, todo, counters, outcome, walked>>

MkOutDir ==
    /\ pc = "outdir"
    /\ LET od == IF Truthy(args.out_dir) THEN args.out_dir.val
                 ELSE LevelPath(repo_root)
           rel == relative_to(od, docs_dir)
       IN /\ out_dir' = od
          /\ \E fault \in BOOLEAN :
                IF fault
                THEN pc' = "except" /\ exc' = "OSError(mkdir)" /\ UNCHANGED tree
                ELSE IF IsPrefix(docs_dir, od) /\ MkdirBlocked(tree, rel)
                THEN pc' = "except" /\ exc' = "FileExistsError" /\ UNCHANGED tree
                ELSE /\ pc' = "open"
                     /\ tree' = IF IsPrefix(docs_dir, od) THEN MkdirTree(tree, rel)
                                ELSE tree
                     /\ UNCHANGED exc
    /\ UNCHANGED <<inputs, today, run, repo_root, docs_dir, zip_path, z, zips,
                   todo, counters, outcome, walked>>

OpenZip ==
    /\ pc = "open"
    /\ LET stamp == IF Truthy(args.stamp) THEN args.stamp.val ELSE london_now_stamp
           zp == out_dir \o <<ZipName(stamp, PathName(LevelPath(repo_root)))>>
       IN /\ zip_path' = zp
          /\ \E fault \in BOOLEAN :
                IF fault
                THEN pc' = "except" /\ exc' = "OSError(open)" /\ UNCHANGED <<z, zips, tree>>
                ELSE /\ pc' = "list"
                     /\ z' = "open"
                     /\ zips' = [q \in DOMAIN zips \cup {zp} |->
                                   IF q = zp
                                   THEN [entries |-> ZipOpen(zips, zp), final |-> FALSE]
                                   ELSE zips[q]]
                     /\ tree' = SyncTree(tree, docs_dir, zp, ZipOpen(zips, zp), FALSE)
                     /\ UNCHANGED exc
    /\ UNCHANGED <<inputs, today, run, repo_root, docs_dir, out_dir, todo,
                   counters, outcome, walked>>

(***************************************************************************)
(* main: the with block                                                    *)
(***************************************************************************)
\* sorted(docs_dir.rglob("*")), evaluated once when the for loop starts
ListSorted ==
    /\ pc = "list"
    /\ \E enum \in Enumerations(DOMAIN tree) :
          todo' = Sorted([i \in DOMAIN enum |-> docs_dir \o enum[i]])
    /\ pc' = "walk"
    /\ UNCHANGED <<tree, inputs, today, run, repo_root, docs_dir, out_dir,
                   zip_path, z, zips, counters, exc, outcome, walked>>

\* z.writestr / z.write: one more entry in the open archive
AddEntry(name, data, rel) ==
    LET es == Append(zips[zip_path].entries,
                     [name |-> name, data |-> data, src |-> rel])
    IN /\ zips' = [zips EXCEPT ![zip_path].entries = es]
       /\ tree' = SyncTree(tree, docs_dir, zip_path, es, FALSE)

SkipEntry ==
    /\ pc = "walk" /\ todo # <<>>
    /\ should_skip(Head(todo))
    /\ todo' = Tail(todo)
    /\ UNCHANGED <<tree, inputs, today, pc, run, repo_root, docs_dir, out_dir,
                   zip_path, z, zips, counters, exc, outcome, walked>>

VisitDir ==
    /\ pc = "walk" /\ todo # <<>>
    /\ ~should_skip(Head(todo))
    /\ LET rel == relative_to(Head(todo), docs_dir)
       IN /\ is_dir(tree, rel)
          /\ IF ~any_iterdir(tree, rel)
             THEN /\ AddEntry(MarkerName(rel), <<>>, rel)
                  /\ dirs_added' = dirs_added + 1
             ELSE UNCHANGED <<zips, tree, dirs_added>>
    /\ todo' = Tail(todo)
    /\ UNCHANGED <<inputs, today, pc, run, repo_root, docs_dir, out_dir,
                   zip_path, z, files_added, exc, outcome, walked>>

AddFile ==
    /\ pc = "walk" /\ todo # <<>>
    /\ ~should_skip(Head(todo))
    /\ LET rel == relative_to(Head(todo), docs_dir)
       IN /\ ~is_dir(tree, rel)
          /\ is_file(tree, rel)
          /\ \E data \in ReadData(tree, zips, docs_dir, zip_path, rel) :
                AddEntry(ArcName(rel), data, rel)
    /\ files_added' = files_added + 1
    /\ todo' = Tail(todo)
    /\ UNCHANGED <<inputs, today, pc, run, repo_root, docs_dir, out_dir,
                   zip_path, z, dirs_added, exc, outcome, walked>>

\* neither a directory nor a regular file: nothing is written
VisitOther ==
    /\ pc = "walk" /\ todo # <<>>
    /\ ~should_skip(Head(todo))
    /\ LET rel == relative_to(Head(todo), docs_dir)
       IN ~is_dir(tree, rel) /\ ~is_file(tree, rel)
    /\ todo' = Tail(todo)
    /\ UNCHANGED <<tree, inputs, today, pc, run, repo_root, docs_dir, out_dir,
                   zip_path, z, zips, counters, exc, outcome, walked>>

\* reading the source file or writing the entry raises
WriteFault ==
    /\ pc = "walk" /\ todo # <<>>
    /\ ~should_skip(Head(todo))
    /\ LET rel == relative_to(Head(todo), docs_dir)
       IN is_file(tree, rel) \/ (is_dir(tree, rel) /\ ~any_iterdir(tree, rel))
    /\ exc' = "OSError(write)"
    /\ pc' = "raise"
    /\ UNCHANGED <<tree, inputs, today, run, repo_root, docs_dir, out_dir,
                   zip_path, z, zips, todo, counters, outcome, walked>>

\* variant: the archive is closed at the end of the loop only
ExitWith_NoCleanup ==
    /\ \/ pc = "walk" /\ todo = <<>>
       \/ pc = "raise"
    /\ IF exc = "none"
       THEN /\ z' = "closed"
            /\ zips' = [zips EXCEPT ![zip_path].final = TRUE]
            /\ tree' = SyncTree(tree, docs_dir, zip_path, zips[zip_path].entries, TRUE)
       ELSE UNCHANGED <<z, zips, tree>>
    /\ pc' = IF exc = "none" THEN "report" ELSE "except"
    /\ UNCHANGED <<inputs, today, run, repo_root, docs_dir, out_dir, zip_path,
                   todo, counters, exc, walked, outcome>>

\* ZipFile.__exit__: close() on the way out of the with block, whether the
\* loop ended or an exception is passing through
ExitWith ==
    /\ \/ pc = "walk" /\ todo = <<>>
       \/ pc = "raise"
    /\ z' = "closed"
    /\ zips' = [zips EXCEPT ![zip_path].final = TRUE]
    /\ tree' = SyncTree(tree, docs_dir, zip_path, zips[zip_path].entries, TRUE)
    /\ pc' = IF exc = "none" THEN "report" ELSE "except"
    /\ UNCHANGED <<inputs, today, run, repo_root, docs_dir, out_dir, zip_path,
                   todo, counters, exc, walked, outcome>>

(***************************************************************************)
(* main: the report, and the handler around main()                         *)
(***************************************************************************)
Line(stream, prefix) == [stream |-> stream, prefix |-> prefix]

Report ==
    /\ pc = "report"
    /\ console' = console \o <<Line("stdout", "Created:"), Line("stdout", "Added files:")>>
    /\ exit_code' = 0
    /\ pc' = "done"
    /\ log' = Append(log, LogRecord(TRUE))
    /\ UNCHANGED <<tree, inputs, today, run, repo_root, docs_dir, out_dir,
                   zip_path, z, zips, todo, counters, exc, walked>>

MainExcept ==
    /\ pc = "except"
    /\ console' = Append(console, Line("stderr", "ERROR:"))
    /\ exit_code' = 1
    /\ pc' = "failed"
    /\ log' = Append(log, LogRecord(FALSE))
    /\ UNCHANGED <<tree, inputs, today, run, repo_root, docs_dir, out_dir,
                   zip_path, z, zips, todo, counters, exc, walked>>

\* the script is started again, on the same or a later day
NextRun ==
    /\ pc \in {"done", "failed"}
    /\ run = 1
    /\ run' = 2
    /\ today' \in {today, Day2}
    /\ pc' = "find_git"
    /\ repo_root' = -1
    /\ docs_dir' = NoPath
    /\ out_dir' = NoPath
    /\ zip_path' = NoPath
    /\ z' = "none"
    /\ todo' = <<>>
    /\ files_added' = 0
    /\ dirs_added' = 0
    /\ exc' = "none"
    /\ console' = <<>>
    /\ exit_code' = -1
    /\ walked' = FALSE
    /\ UNCHANGED <<tree, inputs, zips, log>>

(***************************************************************************)
(* Specifications                                                          *)
(***************************************************************************)
RunStep ==
    \/ GitQuery \/ WalkUp \/ ResolveDocs \/ MkOutDir \/ OpenZip \/ ListSorted
    \/ SkipEntry \/ VisitDir \/ AddFile \/ VisitOther \/ WriteFault
    \/ ExitWith \/ Report \/ MainExcept

\* one invocation, over every source tree of at most MaxEntries entries; the
\* script lies in a checkout (.git next to it) and --stamp is given
WalkArgs == [docs_dir : {Given(<<NameD>>), Given(<<Pycache, NameD>>)},
             out_dir : OutArgs, stamp : {Given(StampS)}]
Init == InitWith(Trees(MaxEntries), WalkArgs, {{0}}, {-1})
Next == RunStep
Spec == Init /\ [][Next]_vars

\* one invocation, over every command line and every placement of .git
InitResolve == InitWith(Trees(MaxEntriesSmall), AllArgs, SUBSET Levels, Levels \cup {-1})
SpecResolve == InitResolve /\ [][Next]_vars

\* repeated invocations with the same command line, --stamp given
TwiceArgs == [docs_dir : {Given(<<NameD>>)}, out_dir : {Absent, Given(<<NameD>>)},
              stamp : {Given(<<>>), Given(StampS)}]
InitTwice == InitWith(Trees(MaxEntriesTwice), TwiceArgs, {{0}}, {-1})
NextTwice == RunStep \/ NextRun
SpecTwice == InitTwice /\ [][NextTwice]_vars

(***************************************************************************)
(* Vocabulary of the properties                                            *)
(***************************************************************************)
\* the entries of the archive of this invocation
Arch == IF zip_path \in DOMAIN zips THEN zips[zip_path].entries ELSE <<>>

\* a path the denylist excludes
Denied(path) ==
    \/ path[Len(path)] = DS_Store
    \/ path[Len(path)] = Thumbs_db
    \/ Pycache \in Range(path)

\* the components of a relative path written with forward slashes
RECURSIVE SlashJoin(_)
SlashJoin(p) ==
    IF Len(p) = 0 THEN <<>>
    ELSE IF Len(p) = 1 THEN p[1]
    ELSE SlashJoin(SubSeq(p, 1, Len(p) - 1)) \o <<47>> \o p[Len(p)]

EntriesNamed(name) == {i \in DOMAIN Arch : Arch[i].name = name}

KeptFiles == {rel \in DOMAIN tree : tree[rel].kind = "file" /\ ~Denied(docs_dir \o rel)}
KeptDirs == {rel \in DOMAIN tree : tree[rel].kind = "dir" /\ ~Denied(docs_dir \o rel)}
RawEmpty(rel) == ~\E q \in DOMAIN tree : Len(q) = Len(rel) + 1 /\ SubSeq(q, 1, Len(rel)) = rel

\* s is smaller than t in the lexicographic order that compares elements by lt
LexLess(lt(_, _), s, t) ==
    \E k \in 1..(Len(s) + 1) :
        /\ k <= Len(t)
        /\ \A m \in 1..(k - 1) : s[m] = t[m]
        /\ k = Len(s) + 1 \/ lt(s[k], t[k])

CodeLess(a, b) == a < b
NameLess(a, b) == LexLess(CodeLess, a, b)
ComponentsLess(p, q) == LexLess(NameLess, p, q)
PathStringLess(p, q) == LexLess(CodeLess, SlashJoin(p), SlashJoin(q))

(***************************************************************************)
(* C1: after a successful run every regular file of the source tree that   *)
(* the denylist does not exclude is in the archive exactly once, named by  *)
(* its source-relative path with forward slashes, with the bytes the file  *)
(* holds.                                                                  *)
(***************************************************************************)
C1_EveryFileOnceIdentical ==
    pc = "done" =>
        \A rel \in KeptFiles :
            /\ Cardinality(EntriesNamed(SlashJoin(rel))) = 1
            /\ \A i \in EntriesNamed(SlashJoin(rel)) : Arch[i].data = tree[rel].data

C3_DenylistNeverWritten ==
    /\ \A i \in DOMAIN Arch :
          /\ ~Denied(docs_dir \o Arch[i].src)
          /\ Arch[i].name \in {SlashJoin(Arch[i].src), SlashJoin(Arch[i].src) \o <<47>>}
    /\ pc = "done" =>
          \A s \in DOMAIN tree, t \in DOMAIN tree :
              /\ Denied(docs_dir \o s) /\ ~Denied(docs_dir \o t)
              /\ Len(s) = Len(t)
              /\ SubSeq(s, 1, Len(s) - 1) = SubSeq(t, 1, Len(t) - 1)
              /\ tree[t].kind = "file" \/ (tree[t].kind = "dir" /\ RawEmpty(t))
              => \E i \in DOMAIN Arch : Arch[i].src = t

C3_Witness ==
    /\ pc = "done"
    /\ \E s \in DOMAIN tree, t \in DOMAIN tree :
          /\ Len(s) = 2 /\ s[1] = Pycache /\ Len(t) = 1
          /\ tree[t].kind = "file" /\ ~Denied(docs_dir \o t)
          /\ \E i \in DOMAIN Arch : Arch[i].src = t

(***************************************************************************)
(* C4: the archive is opened only after root discovery, source resolution  *)
(* and output-directory creation have succeeded, in that order; a failure  *)
(* of any of them ends the run with an ERROR: line and a non-zero exit     *)
(* status, with the archive never opened and no archive file on disk.      *)
(***************************************************************************)
ResolutionErrors == {"RuntimeError", "FileNotFoundError", "FileExistsError", "OSError(mkdir)"}

C4_OpenOnlyAfterResolution ==
    /\ docs_dir # NoPath => repo_root # -1
    /\ out_dir # NoPath => docs_dir # NoPath /\ docsKind = "dir"
    /\ (z # "none" \/ DOMAIN zips # {}) =>
          out_dir # NoPath /\ exc \notin ResolutionErrors
    /\ exc \in ResolutionErrors =>
          /\ pc \in {"except", "failed"}
          /\ z = "none" /\ DOMAIN zips = {} /\ zip_path = NoPath
    /\ (pc = "failed" /\ exc \in ResolutionErrors) =>
          /\ exit_code # 0
          /\ console # <<>>
          /\ console[Len(console)] = [stream |-> "stderr", prefix |-> "ERROR:"]

C4_Witness == pc = "failed" /\ exc = "FileNotFoundError" /\ docsKind = "missing"

(***************************************************************************)
(* C5: two successful runs over the same source tree write the same        *)
(* sequence of entry names, in whatever order the filesystem enumerated    *)
(* the entries.                                                            *)
(***************************************************************************)
C5_SameOrderEveryRun ==
    \A i \in DOMAIN log, j \in DOMAIN log :
        (log[i].ok /\ log[j].ok /\ log[i].kinds = log[j].kinds)
            => log[i].names = log[j].names

C5_Witness ==
    /\ Len(log) = 2
    /\ log[1].ok /\ log[2].ok
    /\ log[1].kinds = log[2].kinds
    /\ Len(log[2].names) >= 2

(***************************************************************************)
(* C6: two runs with the same explicit --stamp, repository name and output *)
(* directory write to the same archive path; the archive of the first run  *)
(* is no cause of failure for the second, which replaces it: afterwards    *)
(* the archive holds what one run over the current tree produces, once.    *)
(***************************************************************************)
ExpectedNames ==
    {SlashJoin(rel) : rel \in KeptFiles}
    \cup {SlashJoin(rel) \o <<47>> : rel \in {d \in KeptDirs : RawEmpty(d)}}

IOFaults == {"OSError(mkdir)", "OSError(open)", "OSError(write)"}

BothRunsOpened ==
    /\ Len(log) = 2
    /\ log[1].zip_path # NoPath
    /\ log[2].zip_path # NoPath

SecondRunReplaces ==
    /\ log[1].zip_path = log[2].zip_path
    /\ (log[1].ok /\ ~log[2].ok) => exc \in IOFaults
    /\ log[2].ok =>
          /\ Len(Arch) = Cardinality(ExpectedNames)
          /\ {Arch[i].name : i \in DOMAIN Arch} = ExpectedNames

\* as claimed: for every explicit --stamp
C6_AnyExplicitStamp ==
    (BothRunsOpened /\ args.stamp.set) => SecondRunReplaces

\* as amended: for every explicit --stamp that is not the empty string
C6_NonEmptyStampOverwrites ==
    (BothRunsOpened /\ args.stamp.set /\ args.stamp.val # <<>>) => SecondRunReplaces

C6_Witness ==
    /\ BothRunsOpened
    /\ args.stamp = Given(StampS)
    /\ log[1].ok /\ log[2].ok
    /\ Len(log[1].names) >= 1
    /\ Len(Arch) >= 1

(***************************************************************************)
(* C7: after a successful run every directory of the source tree that the  *)
(* denylist does not exclude can be recovered from the archive: it is the  *)
(* name of a marker entry or a directory prefix of the name of an entry.   *)
(***************************************************************************)
C7_EveryDirRecoverable ==
    pc = "done" =>
        \A rel \in KeptDirs :
            LET dirname == SlashJoin(rel) \o <<47>>
            IN \E i \in DOMAIN Arch :
                  /\ Len(Arch[i].name) >= Len(dirname)
                  /\ SubSeq(Arch[i].name, 1, Len(dirname)) = dirname

(***************************************************************************)
(* C8: the archive, once opened, is closed on every way out of the with    *)
(* block: no run ends, by success or by error, with the archive open, and  *)
(* the report is printed only once it is closed.                           *)
(***************************************************************************)
C8_ClosedOnEveryExit ==
    /\ pc \in {"except", "failed", "report", "done"} => z # "open"
    /\ (z # "none" /\ pc \in {"except", "failed", "report", "done"}) =>
          z = "closed" /\ zips[zip_path].final
    /\ console # <<>> /\ console[1].stream = "stdout" =>
          z = "closed" /\ zips[zip_path].final
    /\ z = "open" => pc \in {"list", "walk", "raise"}

C8_Witness ==
    /\ pc = "failed"
    /\ exc = "OSError(write)"
    /\ z = "closed"
    /\ Len(Arch) >= 1

(***************************************************************************)
(* C9: the entries are written in lexicographic order.                     *)
(***************************************************************************)

\* as claimed: in the order of the full path strings, character by character
C9_FullPathStringOrder ==
    \A i \in DOMAIN Arch, j \in DOMAIN Arch :
        i < j => PathStringLess(docs_dir \o Arch[i].src, docs_dir \o Arch[j].src)

\* as amended: in the order of the sequences of path components, the
\* components compared character by character
C9_ComponentOrder ==
    /\ \A i \in DOMAIN Arch, j \in DOMAIN Arch :
          i < j => ComponentsLess(docs_dir \o Arch[i].src, docs_dir \o Arch[j].src)
    /\ \A i \in DOMAIN todo, j \in DOMAIN todo :
          i < j => ComponentsLess(todo[i], todo[j])
    /\ \A i \in DOMAIN Arch, j \in DOMAIN todo :
          pc = "walk" => ComponentsLess(docs_dir \o Arch[i].src, todo[j])

C9_Witness ==
    /\ pc = "done"
    /\ \E i \in DOMAIN Arch, j \in DOMAIN Arch :
          /\ i < j
          /\ PathStringLess(docs_dir \o Arch[j].src, docs_dir \o Arch[i].src)

(***************************************************************************)
(* C10: find_repo_root returns the answer of git whenever git answers,     *)
(* without looking at the ancestors; otherwise it returns the nearest of   *)
(* script_dir and its ancestors that holds .git; if there is none the run  *)
(* fails with the root-not-found error before anything else is resolved,   *)
(* and does not try again.                                                 *)
(***************************************************************************)
C10_GitFirstThenNearestAncestor ==
    /\ gitTop # -1 => ~walked /\ repo_root \in {-1, gitTop} /\ exc # "RuntimeError"
    /\ (gitTop # -1 /\ pc # "find_git") => repo_root = gitTop
    /\ (gitTop = -1 /\ repo_root # -1) =>
          /\ walked
          /\ repo_root \in dotgit
          /\ \A l \in Levels : l < repo_root => l \notin dotgit
    /\ (gitTop = -1 /\ dotgit = {} /\ pc \notin {"find_git", "find_walk"}) =>
          exc = "RuntimeError"
    /\ exc = "RuntimeError" =>
          /\ gitTop = -1 /\ dotgit = {}
          /\ pc \in {"except", "failed"}
          /\ repo_root = -1 /\ docs_dir = NoPath /\ out_dir = NoPath
          /\ zip_path = NoPath /\ z = "none"

C10_Witness == pc = "failed" /\ exc = "RuntimeError" /\ walked /\ gitTop = -1

====
